---- MODULE Spec2Model ----
(***************************************************************************)
(* A model of the MCP-RAG ingestion and retrieval pipeline                 *)
(* (scripts/rag_processor.py, scripts/mcp_rag_server.py).                  *)
(*                                                                         *)
(* Strings are sequences of one-character strings, so that str.split,      *)
(* str.join and the f-string of hash_id are computed, not assumed.         *)
(***************************************************************************)
EXTENDS Integers, Sequences, FiniteSets, TLC

(***************************************************************************)
(* Bounds of the model.                                                    *)
(***************************************************************************)
\* longest enumerated document text, in characters
MaxLen == 4
\* largest enumerated target_size argument of auto_chunk
MaxTarget == 3
\* largest enumerated overlap argument of auto_chunk
MaxOverlap == 3
\* iterations of auto_chunk's while loop the model follows before it stops
\* following a run (a run that reaches it is a run whose loop has not ended)
MaxChunks == 8
\* words of the longest enumerated medium document (MaxWords <= MaxChunks,
\* so that every terminating run of it is followed to its return)
MaxWords == 7
\* longest collection name and chunk text hash_id is called with, in characters
MaxKeyLen == 2
\* calls of hash_id one behaviour records
MaxHashCalls == 2
\* rows of the longest enumerated batch handed to insert_chunks
MaxBatch == 2
\* largest enumerated limit of a search
MaxLimit == 2
\* entries of the largest enumerated folder
MaxFiles == 2
\* largest enumerated os.cpu_count()
MaxCpus == 2

(***************************************************************************)
(* Program constants of rag_processor.py.                                  *)
(***************************************************************************)
DEFAULT_CHUNK_SIZE == 800
DEFAULT_OVERLAP == 120
\* max(50, ...) of line 128
MinTargetSize == 50
\* max(10, ...) of line 129
MinOverlap == 10
\* len(words) > 5000 of line 130
LongDocWords == 5000
\* min(..., 2000) of line 131
MaxTargetSize == 2000
SCHEMA_VERSION == 1
\* page_size=100 of line 104
PAGE_SIZE == 100

VARIABLES
  \* ---- auto_chunk (one call) ----
  text,          \* the text argument
  arg_target_size, \* the target_size argument as passed
  arg_overlap,   \* the overlap argument as passed
  words,         \* local: text.split()
  target_size,   \* local: target_size after the adaptive resizing
  overlap,       \* local: overlap after the adaptive resizing
  chunks,        \* local: the list being built
  start,         \* local: window start
  chunk_pc,      \* "call" | "loop" | "return"
  \* ---- hash_id ----
  hash_calls,    \* the calls made so far: records [collection, text, id]
  \* ---- the PostgreSQL database and one DatabaseManager ----
  db,            \* the committed database, as every other connection reads it
  conn,          \* "closed" | "open": the DatabaseManager's connection
  tx,            \* the database as the connection sees it inside its transaction
  tx_status,     \* "none" | "open" | "aborted": the connection's transaction
  call,          \* the latest DatabaseManager call: its arguments, whether it
                 \* is running, returned or raised, and what it found
  batches,       \* history: the insert_chunks batches with statements in the
                 \* open transaction, and those the last commit published
                 \* (remembered until the next call starts)
  \* ---- similarity search ----
  search,        \* the latest search: its arguments, the table it ran on and
                 \* what it returned or raised
  \* ---- ingest_folder (one call) ----
  folder,        \* what os.walk(folder) finds, in its order
  cpu_count,     \* os.cpu_count() of the machine
  ingest_pc,     \* "submit" | "collect" | "unwind" | "insert" | "inserting" |
                 \* "returned" | "raised"
  futures,       \* the futures list: one record per submitted task
  collected,     \* the futures as_completed has yielded
  ingest_rows,   \* local: rows
  ingest_error,  \* the exception ingest_folder ends with, or "none"
  store_uses     \* history: each call this run made on the store connection,
                 \* with the thread that made it and the tasks not finished then

chunk_vars == <<text, arg_target_size, arg_overlap, words, target_size, overlap,
                chunks, start, chunk_pc>>

hash_vars == <<hash_calls>>

store_vars == <<db, conn, tx, tx_status, call, batches>>

search_vars == <<search>>

ingest_vars ==
  <<folder, cpu_count, ingest_pc, futures, collected, ingest_rows, ingest_error, store_uses>>

vars == <<chunk_vars, hash_vars, store_vars, search_vars, ingest_vars>>

(***************************************************************************)
(* Python helpers.                                                         *)
(***************************************************************************)
Max(a, b) == IF a >= b THEN a ELSE b
Min(a, b) == IF a <= b THEN a ELSE b

\* The characters str.split() treats as separators: every character for
\* which str.isspace() holds.  A character without a literal of its own is
\* written by its code point.
Whitespace ==
  {" ", "\t", "\n", "\r", "\f", "U+000B", "U+001C", "U+001D", "U+001E", "U+001F",
   "U+0085", "U+00A0", "U+1680", "U+2000", "U+2001", "U+2002", "U+2003", "U+2004",
   "U+2005", "U+2006", "U+2007", "U+2008", "U+2009", "U+200A", "U+2028", "U+2029",
   "U+202F", "U+205F", "U+3000"}

\* str.split() with no argument on text[lo..hi]: the maximal runs of
\* non-whitespace characters, in order; never an empty word.  Computed by
\* halving so that long documents need no deep recursion: a run that spans
\* the middle is glued back together.
RECURSIVE SplitRange(_, _, _)
SplitRange(t, lo, hi) ==
  IF lo > hi THEN <<>>
  ELSE IF lo = hi
       THEN (IF t[lo] \in Whitespace THEN <<>> ELSE << <<t[lo]>> >>)
       ELSE LET mid == (lo + hi) \div 2
                L == SplitRange(t, lo, mid)
                R == SplitRange(t, mid + 1, hi)
            IN IF t[mid] \notin Whitespace /\ t[mid + 1] \notin Whitespace
               THEN SubSeq(L, 1, Len(L) - 1) \o << L[Len(L)] \o R[1] >> \o Tail(R)
               ELSE L \o R

split(t) == SplitRange(t, 1, Len(t))

\* " ".join(ws[lo..hi])
RECURSIVE JoinRange(_, _, _)
JoinRange(ws, lo, hi) ==
  IF lo > hi THEN <<>>
  ELSE IF lo = hi THEN ws[lo]
       ELSE LET mid == (lo + hi) \div 2
            IN JoinRange(ws, lo, mid) \o <<" ">> \o JoinRange(ws, mid + 1, hi)

join(ws) == JoinRange(ws, 1, Len(ws))

\* A slice index as Python normalises it: a negative index counts from the
\* end, and the result is clamped to 0..n.
SliceIndex(i, n) == IF i < 0 THEN Max(i + n, 0) ELSE Min(i, n)

\* s[a:b] of a Python list (0-based, end exclusive).
PySlice(s, a, b) ==
  LET lo == SliceIndex(a, Len(s))
      hi == SliceIndex(b, Len(s))
  IN IF hi <= lo THEN <<>> ELSE SubSeq(s, lo + 1, hi)

(***************************************************************************)
(* hash_id, rag_processor.py lines 179-180.                                *)
(***************************************************************************)
\* hashlib.sha1(b).hexdigest(), taken to be collision-free: the digest stands
\* for exactly one byte string (str.encode is one-to-one as well).
sha1_hexdigest(b) == <<"sha1">> \o b

\* the f-string of line 180: f"{collection}:{text}"
HashInput(t, c) == c \o <<":">> \o t

hash_id(t, c) == sha1_hexdigest(HashInput(t, c))

KeyAlphabet == {"a", ":"}

RECURSIVE KeysOfLen(_)
KeysOfLen(n) ==
  IF n = 0 THEN {<<>>}
  ELSE {Append(t, ch) : t \in KeysOfLen(n - 1), ch \in KeyAlphabet}

\* chunk texts and collection names hash_id is called with
HashTexts == UNION {KeysOfLen(n) : n \in 0..MaxKeyLen}
HashCollections == UNION {KeysOfLen(n) : n \in 1..MaxKeyLen}

HashIdle == hash_calls = {}

\* one call hash_id(t, c), line 179
HashIdCall ==
  /\ Cardinality(hash_calls) < MaxHashCalls
  /\ \E c \in HashCollections, t \in HashTexts :
       hash_calls' = hash_calls \cup {[collection |-> c, text |-> t, id |-> hash_id(t, c)]}

(***************************************************************************)
(* auto_chunk, rag_processor.py lines 124-142.                             *)
(***************************************************************************)
\* lines 127-131: target_size after the adaptive resizing
ResizedTarget(n, ts) ==
  IF n < ts THEN Max(MinTargetSize, n \div 2)
  ELSE IF n > LongDocWords THEN Min(ts * 2, MaxTargetSize)
  ELSE ts

\* lines 127-131: overlap after the adaptive resizing
ResizedOverlap(n, ts, ov) ==
  IF n < ts THEN Max(MinOverlap, ResizedTarget(n, ts) \div 10)
  ELSE ov

\* lines 137-139: the chunk one iteration appends
ChunkOfWindowBad(ws, st, ts) == join(PySlice(ws, st + 1, st + ts))
ChunkOfWindow(ws, st, ts) == join(PySlice(ws, st, st + ts))

\* a document of n one-letter words separated by single spaces
WordDoc(n) ==
  [i \in 1..(2 * n - 1) |->
     IF i % 2 = 0 THEN " " ELSE IF ((i + 1) \div 2) % 2 = 1 THEN "a" ELSE "b"]

Alphabet == {"a", "b", " ", "\n"}

RECURSIVE TextsOfLen(_)
TextsOfLen(n) ==
  IF n = 0 THEN {<<>>}
  ELSE {Append(t, c) : t \in TextsOfLen(n - 1), c \in Alphabet}

ShortTexts == UNION {TextsOfLen(n) : n \in 0..MaxLen}

\* The calls of auto_chunk the model follows: every short text with every
\* small target_size and overlap, and documents around the thresholds of the
\* adaptive resizing with the default and with large arguments.
ChunkCalls ==
  {<<t, ts, ov>> : t \in ShortTexts, ts \in 1..MaxTarget, ov \in 0..MaxOverlap}
  \cup {<<WordDoc(MaxWords), ts, ov>> : ts \in 1..MaxTarget, ov \in 0..MaxOverlap}
  \cup {<<WordDoc(MinTargetSize - 5), DEFAULT_CHUNK_SIZE, DEFAULT_OVERLAP>>,
        <<WordDoc(LongDocWords + 1), DEFAULT_CHUNK_SIZE, DEFAULT_OVERLAP>>,
        <<WordDoc(LongDocWords + 1), MaxTargetSize + 1, MaxTargetSize>>}

\* no call of auto_chunk is being followed
ChunkIdle ==
  /\ text = <<>>
  /\ arg_target_size = DEFAULT_CHUNK_SIZE
  /\ arg_overlap = DEFAULT_OVERLAP
  /\ words = <<>>
  /\ target_size = DEFAULT_CHUNK_SIZE
  /\ overlap = DEFAULT_OVERLAP
  /\ chunks = <<>>
  /\ start = 0
  /\ chunk_pc = "return"

AutoChunkCall ==
  /\ \E c \in ChunkCalls :
       /\ text = c[1]
       /\ arg_target_size = c[2]
       /\ arg_overlap = c[3]
  /\ words = <<>>
  /\ target_size = arg_target_size
  /\ overlap = arg_overlap
  /\ chunks = <<>>
  /\ start = 0
  /\ chunk_pc = "call"

\* lines 125-134
AutoChunkEnter ==
  /\ chunk_pc = "call"
  /\ words' = split(text)
  /\ target_size' = ResizedTarget(Len(split(text)), arg_target_size)
  /\ overlap' = ResizedOverlap(Len(split(text)), arg_target_size, arg_overlap)
  /\ chunks' = <<>>
  /\ start' = 0
  /\ chunk_pc' = "loop"
  /\ UNCHANGED <<text, arg_target_size, arg_overlap>>

\* lines 136-140: one iteration of the while loop
AutoChunkIterate ==
  /\ chunk_pc = "loop"
  /\ start < Len(words)
  /\ Len(chunks) < MaxChunks
  /\ chunks' = Append(chunks, ChunkOfWindow(words, start, target_size))
  /\ start' = (start + target_size) - overlap
  /\ UNCHANGED <<text, arg_target_size, arg_overlap, words, target_size, overlap,
                 chunk_pc>>

\* lines 136, 142: the loop condition fails and the list is returned
AutoChunkReturn ==
  /\ chunk_pc = "loop"
  /\ ~(start < Len(words))
  /\ chunk_pc' = "return"
  /\ UNCHANGED <<text, arg_target_size, arg_overlap, words, target_size, overlap,
                 chunks, start>>

(***************************************************************************)
(* The database and DatabaseManager, rag_processor.py lines 32-118.        *)
(*                                                                         *)
(* db is the committed state.  The connection runs with autocommit off     *)
(* (line 35): its statements act on tx, its own view, which a commit       *)
(* publishes to db and which a rollback, a failed transaction or the loss  *)
(* of the connection discards.                                             *)
(***************************************************************************)
IndexNames ==
  {"idx_document_chunk_collection_name", "idx_document_chunk_vector_ivfflat",
   "idx_document_chunk_vector_hnsw"}

\* a database before any initialize_schema
EmptyDb ==
  [extension |-> FALSE, version_table |-> FALSE, versions |-> <<>>,
   chunk_table |-> FALSE, indexes |-> {}, rows |-> {}]

\* self.conn.autocommit of line 35
autocommit == FALSE

\* what a rollback leaves of the recorded batches: those already published
RolledBack(bs) == {b \in bs : b.committed}

\* what the start of a call leaves of the recorded batches: those of the
\* open transaction
Unpublished(bs) == {b \in bs : ~b.committed}

\* what a commit makes of the recorded batches: the batches of the
\* transaction are published
Published(bs) == {[b EXCEPT !.committed = TRUE] : b \in {c \in bs : ~c.committed}}

\* no DatabaseManager method has been called yet
NoCall == [op |-> "none", state |-> "returned"]

Range(f) == {f[i] : i \in DOMAIN f}

NoDuplicates(q) == \A i \in 1..Len(q) : \A j \in 1..Len(q) : q[i] = q[j] => i = j

\* the suffixes ingest_folder accepts, line 208: ".txt" and ".md"
TxtSuffix == <<".", "t", "x", "t">>
MdSuffix == <<".", "m", "d">>

\* A file is written by the directories between the ingestion folder and
\* it, its name up to the last dot, and the rest of the name (the suffix, a
\* sequence of characters).
File(dirs, stem, suffix) == [dirs |-> dirs, stem |-> stem, suffix |-> suffix]

\* os.path.basename(file), line 197
Basename(file) == <<file.stem, file.suffix>>

\* os.path.relpath(file, base_folder).split(os.sep)[0], lines 187-188
Product(file) == IF file.dirs = <<>> THEN Basename(file) ELSE file.dirs[1]

\* the metadata process_file attaches, lines 196-199
Metadata(file) == [source |-> Basename(file), product |-> Product(file)]

\* the row process_file builds for one chunk, lines 191-200
Row(chunk, vector, file, collection) ==
  [id |-> hash_id(chunk, collection), vector |-> vector,
   collection_name |-> collection, text |-> chunk, vmetadata |-> Metadata(file)]

Ids(table) == {r.id : r \in table}

\* INSERT ... ON CONFLICT (id) DO NOTHING of one row, lines 99-103
OnConflictDoUpdate(table, r) == {s \in table : s.id # r.id} \cup {r}
OnConflictDoNothing(table, r) ==
  IF r.id \in Ids(table) THEN table ELSE table \cup {r}

\* the statements of rows[i..j], executed in order: the first half, then the
\* second half on the table the first half left (by halves, so that a full
\* page needs no deep recursion)
RECURSIVE InsertRows(_, _, _, _)
InsertRows(table, rows, i, j) ==
  IF i > j THEN table
  ELSE IF i = j THEN OnConflictDoNothing(table, rows[i])
       ELSE LET mid == (i + j) \div 2
            IN CHOOSE done \in {InsertRows(first, rows, mid + 1, j) :
                                  first \in {InsertRows(table, rows, i, mid)}} : TRUE

\* if current_version < SCHEMA_VERSION, line 55
NeedsMigration(current_version) == current_version < SCHEMA_VERSION

\* SELECT MAX(version) ...; fetchone()[0] or 0, lines 50-53
CurrentVersion(versions) ==
  IF versions = <<>> THEN 0
  ELSE CHOOSE v \in Range(versions) : \A w \in Range(versions) : w <= v

\* DatabaseManager.__init__, lines 33-36
Connect ==
  /\ conn = "closed"
  /\ conn' = "open"
  /\ tx' = db
  /\ tx_status' = "none"
  /\ batches' = RolledBack(batches)
  /\ UNCHANGED <<db, call>>

\* The process dies or the connection is lost: the server rolls back
\* whatever the connection had not committed, and a call in progress ends
\* with an exception.
ConnectionLost ==
  /\ conn = "open"
  /\ conn' = "closed"
  /\ tx' = db
  /\ tx_status' = "none"
  /\ call' = IF call.state = "running" THEN [call EXCEPT !.state = "raised"] ELSE call
  /\ batches' = RolledBack(batches)
  /\ UNCHANGED db

\* initialize_schema up to and including _apply_migrations, lines 40-56 and
\* 90-96, when the server accepts every statement (InitializeSchemaRefused
\* is the call in which it does not): the extension and the version table
\* are created if missing, the recorded version is read, and when it is
\* below SCHEMA_VERSION the version
\* row is inserted and committed.
InitializeSchemaBegin ==
  /\ conn = "open"
  /\ call.state # "running"
  /\ tx_status # "aborted"
  /\ LET t1 == [tx EXCEPT !.extension = TRUE, !.version_table = TRUE]
         current_version == CurrentVersion(t1.versions)
         t2 == [t1 EXCEPT !.versions = Append(@, SCHEMA_VERSION)]
         c == [op |-> "initialize_schema", state |-> "running", before |-> db,
               current_version |-> current_version]
     IN IF NeedsMigration(current_version)
        THEN IF SCHEMA_VERSION \in Range(t1.versions)
             THEN \* PRIMARY KEY of line 45: the INSERT is refused
                  /\ tx_status' = "aborted"
                  /\ tx' = db
                  /\ call' = [c EXCEPT !.state = "raised"]
                  /\ batches' = {}
                  /\ UNCHANGED db
             ELSE /\ db' = t2
                  /\ tx' = t2
                  /\ tx_status' = "none"
                  /\ call' = c
                  /\ batches' = Published(batches)
        ELSE /\ tx' = t1
             /\ tx_status' = "open"
             /\ call' = c
             /\ batches' = Unpublished(batches)
             /\ UNCHANGED db
  /\ UNCHANGED conn

\* A statement of lines 40-53 or the INSERT of line 92 is refused by the
\* server (the vector extension is not installed or may not be created, the
\* transaction is already failed), or the connection drops there: psycopg2
\* raises out of initialize_schema and nothing of the call is committed.
InitializeSchemaRefused ==
  /\ conn = "open"
  /\ call.state # "running"
  /\ \E lost \in BOOLEAN :
       /\ conn' = IF lost THEN "closed" ELSE "open"
       /\ tx_status' = IF lost THEN "none" ELSE "aborted"
  /\ tx' = db
  /\ call' = [op |-> "initialize_schema", state |-> "raised", before |-> db,
              current_version |-> CurrentVersion(db.versions)]
  /\ batches' = {}
  /\ UNCHANGED db

\* initialize_schema, lines 59-88: the chunk table and its indexes are
\* created if missing and the transaction is committed.  The commit of line
\* 88 is a round trip: when the connection is lost after the server has
\* committed and before its reply arrives, commit() raises although the
\* tables are committed.
InitializeSchemaFinish ==
  /\ call.op = "initialize_schema"
  /\ call.state = "running"
  /\ LET t3 == [tx EXCEPT !.chunk_table = TRUE, !.indexes = IndexNames]
     IN /\ db' = t3
        /\ tx' = t3
  /\ tx_status' = "none"
  /\ batches' = Published(batches)
  /\ \E reply_lost \in BOOLEAN :
       /\ call' = [call EXCEPT !.state = IF reply_lost THEN "raised" ELSE "returned"]
       /\ conn' = IF reply_lost THEN "closed" ELSE conn

\* A statement of lines 59-86 is refused by the server (an index method the
\* installed pgvector lacks, a missing privilege): psycopg2 raises, the
\* transaction is failed and nothing of it is committed.
InitializeSchemaRaises ==
  /\ call.op = "initialize_schema"
  /\ call.state = "running"
  /\ tx_status' = "aborted"
  /\ tx' = db
  /\ call' = [call EXCEPT !.state = "raised"]
  /\ batches' = RolledBack(batches)
  /\ UNCHANGED <<db, conn>>

\* insert_chunks(rows) is called, line 98
InsertChunksCall(rows) ==
  /\ conn = "open"
  /\ call.state # "running"
  /\ call' = [op |-> "insert_chunks", state |-> "running", rows |-> rows,
              sent |-> 0, before |-> db.rows, found |-> tx.rows]
  /\ batches' = Unpublished(batches)
  /\ UNCHANGED <<db, conn, tx, tx_status>>

\* Whether psycopg2 can write the row into a statement: a str parameter
\* with a NUL character cannot be adapted, cursor.mogrify raises ValueError.
\* The str parameters of a row are id, collection_name, text and vmetadata;
\* vmetadata is the output of json.dumps, which escapes the character.
Adaptable(r) ==
  /\ "U+0000" \notin Range(r.id)
  /\ "U+0000" \notin Range(r.collection_name)
  /\ "U+0000" \notin Range(r.text)

\* the rows of the next page of the running insert_chunks call
NextPage ==
  {call.rows[i] : i \in (call.sent + 1)..Min(call.sent + PAGE_SIZE, Len(call.rows))}

\* the record of the running call among the batches of the transaction
BatchOf(c, sent) ==
  [rows |-> c.rows, sent |-> sent, before |-> c.before, committed |-> FALSE]

\* execute_batch, line 104: the next page of at most page_size statements is
\* built and sent as one command.
InsertChunksPage ==
  /\ call.op = "insert_chunks"
  /\ call.state = "running"
  /\ call.sent < Len(call.rows)
  /\ {r \in NextPage : ~Adaptable(r)} = {}
  /\ tx_status # "aborted"
  /\ tx.chunk_table
  /\ LET last == Min(call.sent + PAGE_SIZE, Len(call.rows))
         t1 == [tx EXCEPT !.rows = InsertRows(tx.rows, call.rows, call.sent + 1, last)]
         bs == (batches \ {BatchOf(call, call.sent)}) \cup {BatchOf(call, last)}
     IN /\ tx' = t1
        /\ tx_status' = IF autocommit THEN "none" ELSE "open"
        /\ db' = IF autocommit THEN t1 ELSE db
        /\ batches' = IF autocommit THEN Published(bs) ELSE bs
        /\ call' = [call EXCEPT !.sent = last]
  /\ UNCHANGED conn

\* execute_batch, line 104: the server refuses the page (the table is
\* missing, a vector has the wrong dimension, the transaction is already
\* failed): psycopg2 raises out of insert_chunks before the commit.
InsertChunksRaises ==
  /\ call.op = "insert_chunks"
  /\ call.state = "running"
  /\ call.sent < Len(call.rows)
  /\ {r \in NextPage : ~Adaptable(r)} = {}
  /\ tx_status' = "aborted"
  /\ tx' = db
  /\ call' = [call EXCEPT !.state = "raised"]
  /\ batches' = RolledBack(batches)
  /\ UNCHANGED <<db, conn>>

\* execute_batch, line 104: a row of the next page cannot be adapted, and
\* psycopg2 raises on the client before the page is sent.  insert_chunks
\* has no rollback: the pages sent before stay in the connection's open
\* transaction.
InsertChunksClientError ==
  /\ call.op = "insert_chunks"
  /\ call.state = "running"
  /\ call.sent < Len(call.rows)
  /\ {r \in NextPage : ~Adaptable(r)} # {}
  /\ call' = [call EXCEPT !.state = "raised"]
  /\ UNCHANGED <<db, conn, tx, tx_status, batches>>

\* self.conn.commit(), line 105; the commit of a failed transaction is a
\* rollback.  The commit is a round trip: when the connection is lost after
\* the server has committed and before its reply arrives, commit() raises
\* although the batch is committed.
InsertChunksCommit ==
  /\ call.op = "insert_chunks"
  /\ call.state = "running"
  /\ call.sent = Len(call.rows)
  /\ db' = IF tx_status = "aborted" THEN db ELSE tx
  /\ tx' = IF tx_status = "aborted" THEN db ELSE tx
  /\ tx_status' = "none"
  /\ batches' = IF tx_status = "aborted" THEN RolledBack(batches) ELSE Published(batches)
  /\ \E reply_lost \in BOOLEAN :
       /\ call' = [call EXCEPT !.state = IF reply_lost THEN "raised" ELSE "returned"]
       /\ conn' = IF reply_lost THEN "closed" ELSE conn

StoreIdle ==
  /\ db = EmptyDb
  /\ conn = "closed"
  /\ tx = EmptyDb
  /\ tx_status = "none"
  /\ call = NoCall
  /\ batches = {}

DigitChars == <<"0", "1", "2", "3", "4", "5", "6", "7", "8", "9">>

\* the decimal numeral of n, as a text
RECURSIVE NumText(_)
NumText(n) ==
  IF n < 10 THEN <<DigitChars[n + 1]>>
  ELSE NumText(n \div 10) \o <<DigitChars[(n % 10) + 1]>>

\* The rows of the enumerated batches: two chunk texts of one collection,
\* the first with two embeddings, so that rows share an id and differ in
\* vector.
StoreRows ==
  {Row(<<"a">>, v, File(<<>>, "a", TxtSuffix), <<"a">>) : v \in {<<0>>, <<1>>}}
  \cup {Row(<<"b">>, <<0>>, File(<<>>, "a", TxtSuffix), <<"a">>)}

RECURSIVE SeqsOfLen(_, _)
SeqsOfLen(S, n) ==
  IF n = 0 THEN {<<>>}
  ELSE {Append(q, x) : q \in SeqsOfLen(S, n - 1), x \in S}

\* a batch one row longer than an execute_batch page, all ids distinct
LongBatch ==
  [i \in 1..(PAGE_SIZE + 1) |->
     Row(NumText(i), <<0>>, File(<<>>, "long", TxtSuffix), <<"a">>)]

\* the same batch with a chunk text that holds a NUL character in the row
\* after the first page
PoisonedBatch ==
  [LongBatch EXCEPT ![PAGE_SIZE + 1] =
     Row(<<"U+0000">>, <<0>>, File(<<>>, "long", TxtSuffix), <<"a">>)]

StoreBatches ==
  UNION {SeqsOfLen(StoreRows, n) : n \in 0..MaxBatch} \cup {LongBatch, PoisonedBatch}

(***************************************************************************)
(* Similarity search: DatabaseManager.similarity_search, rag_processor.py  *)
(* lines 107-118, and search_documents, mcp_rag_server.py lines 37-68.     *)
(*                                                                         *)
(* A vector is written by its leading coordinates, the others being zero.  *)
(***************************************************************************)
\* vector <-> query, the Euclidean distance, by its square (the square root
\* keeps the order, and only the order of distances is used)
RECURSIVE SumSquares(_, _, _)
SumSquares(u, v, i) ==
  IF i > Len(u) THEN 0
  ELSE (u[i] - v[i]) * (u[i] - v[i]) + SumSquares(u, v, i + 1)

Distance(u, v) == SumSquares(u, v, 1)

\* SELECT text, vmetadata, vector <-> q AS distance
Selected(r, q) == [text |-> r.text, metadata |-> r.vmetadata, distance |-> Distance(r.vector, q)]

\* ORDER BY vector <-> q LIMIT k over the rows S: every list the server may
\* answer with (rows at the same distance come in either order)
RECURSIVE OrderByLimit(_, _, _)
OrderByLimit(S, q, k) ==
  IF k = 0 \/ S = {} THEN {<<>>}
  ELSE UNION {{<<Selected(r, q)>> \o rest : rest \in OrderByLimit(S \ {r}, q, k - 1)} :
              r \in {x \in S : \A y \in S : Distance(x.vector, q) <= Distance(y.vector, q)}}

\* WHERE collection_name = %s
WhereCollection(table, c) == {r \in table : r.collection_name = c}

\* the %s placeholders of the two SELECT statements (lines 114 and 116 of
\* rag_processor.py, lines 51 and 53 of mcp_rag_server.py)
SelectPlaceholders == 2
\* the parameters similarity_search passes: (query_vector, collection, limit)
SimilaritySearchParams == 3
\* the parameters search_documents passes: (collection, limit)
SearchDocumentsParams == 2

\* cursor.execute(sql, params): psycopg2 formats the statement first, and
\* raises TypeError ("not all arguments converted") when params holds more
\* values than the statement has placeholders; otherwise the server runs the
\* SELECT, and refuses it when the table does not exist.
ExecuteSelect(d, q, c, k, nparams) ==
  IF nparams # SelectPlaceholders THEN {[state |-> "raised", error |-> "TypeError"]}
  ELSE IF ~d.chunk_table THEN {[state |-> "raised", error |-> "UndefinedTable"]}
  ELSE {[state |-> "returned", result |-> res] :
          res \in OrderByLimit(WhereCollection(d.rows, c), q, k)}

NoSearch == [op |-> "none"]

SearchIdle == search = NoSearch

\* DatabaseManager.similarity_search(query_vector, collection, limit), on the
\* manager's own connection
SimilaritySearch(q, c, k) ==
  /\ conn = "open"
  /\ call.state # "running"
  /\ tx_status # "aborted"
  /\ \E out \in ExecuteSelect(tx, q, c, k, SimilaritySearchParams) :
       search' = [op |-> "similarity_search", query_vector |-> q, collection |-> c,
                  limit |-> k, table_exists |-> tx.chunk_table, over |-> tx.rows,
                  out |-> out]
  /\ UNCHANGED store_vars

\* search_documents(query, collection, limit), on a connection of its own;
\* q is the embedding get_embedding returned for the query
SearchDocuments(q, c, k) ==
  /\ \E out \in ExecuteSelect(db, q, c, k, SearchDocumentsParams) :
       search' = [op |-> "search_documents", query_vector |-> q, collection |-> c,
                  limit |-> k, table_exists |-> db.chunk_table, over |-> db.rows,
                  out |-> out]
  /\ UNCHANGED store_vars

SearchCollections == {<<"a">>, <<"b">>}

\* the rows of the enumerated batches: three chunks of collection "a", two
\* of them at the same distance from either query, and one of collection "b"
SearchRows ==
  {Row(<<"a">>, <<0, 0>>, File(<<>>, "a", TxtSuffix), <<"a">>),
   Row(<<"b">>, <<1, 1>>, File(<<>>, "a", TxtSuffix), <<"a">>),
   Row(<<"a", "b">>, <<1, -1>>, File(<<"p">>, "b", MdSuffix), <<"a">>),
   Row(<<"a">>, <<2, 0>>, File(<<>>, "a", TxtSuffix), <<"b">>)}

SearchBatches == UNION {SeqsOfLen(SearchRows, n) : n \in 1..MaxBatch}

QueryVectors == {<<0, 0>>, <<2, 0>>}

(***************************************************************************)
(* Ingestion: process_file and ingest_folder, rag_processor.py lines       *)
(* 182-229.                                                                *)
(***************************************************************************)
\* auto_chunk(text, target_size, overlap) as a function, for arguments with
\* which its loop ends: the windows from start st on, lines 136-140
RECURSIVE Windows(_, _, _, _)
Windows(ws, st, ts, ov) ==
  IF st < Len(ws)
  THEN <<ChunkOfWindow(ws, st, ts)>> \o Windows(ws, (st + ts) - ov, ts, ov)
  ELSE <<>>

auto_chunk(t, ts, ov) ==
  Windows(split(t), 0, ResizedTarget(Len(split(t)), ts),
          ResizedOverlap(Len(split(t)), ts, ov))

\* MAX_WORKERS = min(8, os.cpu_count() or 4), line 24
\* (os.cpu_count() answers None when it cannot tell; 0 stands for it)
MAX_WORKERS(cpus) == Min(8, IF cpus = 0 THEN 4 ELSE cpus)

\* the parameters of process_file, line 182: embedder, chunks, file, collection
ProcessFileParams == 4
\* the arguments ingest_folder submits with process_file, line 223:
\* embedder, chunks, file, collection, folder
SubmitArgs == 5
\* whether the module assigns the global base_folder that line 187 reads
BaseFolderDefined == FALSE

\* the vector the embedding service answers with for a text; the service
\* is external, any deterministic answer stands for it
Embedding(t) == <<Len(t)>>

\* The call process_file(*args) a worker makes, lines 182-201, with nargs
\* arguments.  service_ok: the embedding service answers the requests of
\* embedder.embed (line 183) with success; raise_for_status (line 167)
\* raises otherwise, at the first chunk (no chunk, no request).
CallProcessFile(nargs, service_ok, chks, file, collection) ==
  IF nargs # ProcessFileParams THEN [raised |-> "TypeError", rows |-> <<>>]
  ELSE IF ~service_ok /\ chks # <<>> THEN [raised |-> "HTTPError", rows |-> <<>>]
  ELSE IF ~BaseFolderDefined THEN [raised |-> "NameError", rows |-> <<>>]
  ELSE [raised |-> "none",
        rows |-> [i \in 1..Len(chks) |-> Row(chks[i], Embedding(chks[i]), file, collection)]]

\* str.lower() of one character.  The letters A-Z are listed: no other
\* character lowers to a letter of ".txt" or ".md".
UpperToLower ==
  [c \in {"A", "B", "C", "D", "E", "F", "G", "H", "I", "J", "K", "L", "M",
          "N", "O", "P", "Q", "R", "S", "T", "U", "V", "W", "X", "Y", "Z"} |->
     CASE c = "A" -> "a" [] c = "B" -> "b" [] c = "C" -> "c" [] c = "D" -> "d"
       [] c = "E" -> "e" [] c = "F" -> "f" [] c = "G" -> "g" [] c = "H" -> "h"
       [] c = "I" -> "i" [] c = "J" -> "j" [] c = "K" -> "k" [] c = "L" -> "l"
       [] c = "M" -> "m" [] c = "N" -> "n" [] c = "O" -> "o" [] c = "P" -> "p"
       [] c = "Q" -> "q" [] c = "R" -> "r" [] c = "S" -> "s" [] c = "T" -> "t"
       [] c = "U" -> "u" [] c = "V" -> "v" [] c = "W" -> "w" [] c = "X" -> "x"
       [] c = "Y" -> "y" [] c = "Z" -> "z"]

LowerChar(c) == IF c \in DOMAIN UpperToLower THEN UpperToLower[c] ELSE c

\* f.lower() of the end of a file name, character by character
Lower(suffix) == [i \in 1..Len(suffix) |-> LowerChar(suffix[i])]

\* f.lower().endswith((".txt", ".md")), line 208
IsIngestible(file) ==
  Lower(file.suffix) \in {TxtSuffix, MdSuffix}

\* lines 204-209: the files of the folder that pass the suffix filter
RECURSIVE Ingestible(_)
Ingestible(entries) ==
  IF entries = <<>> THEN <<>>
  ELSE (IF IsIngestible(Head(entries)) THEN <<Head(entries)>> ELSE <<>>)
       \o Ingestible(Tail(entries))

\* the files the enumerated folders hold, and their texts
DirEntries ==
  {File(<<>>, "a", TxtSuffix), File(<<"p">>, "b", <<".", "M", "d">>),
   File(<<>>, "c", <<".", "p", "d", "f">>), File(<<>>, "e", <<".", "T", "X", "T">>)}

FileText(file) ==
  IF file.stem = "e" THEN <<>>
  ELSE IF file.stem = "c" THEN <<"b">>
  ELSE <<"a", "\n", "b">>

Folders ==
  {q \in UNION {SeqsOfLen(DirEntries, n) : n \in 0..MaxFiles} : NoDuplicates(q)}

IngestCollection == <<"a">>

\* a database on which initialize_schema has returned, as main leaves it
\* before it calls ingest_folder (lines 302-308)
InitializedDb ==
  [extension |-> TRUE, version_table |-> TRUE, versions |-> <<SCHEMA_VERSION>>,
   chunk_table |-> TRUE, indexes |-> IndexNames, rows |-> {}]

IngestIdle ==
  /\ folder = <<>>
  /\ cpu_count = 1
  /\ ingest_pc = "returned"
  /\ futures = <<>>
  /\ collected = {}
  /\ ingest_rows = <<>>
  /\ ingest_error = "none"
  /\ store_uses = <<>>

\* ingest_folder(db, embedder, folder, collection) is called, lines 203-214
IngestFolderCall ==
  /\ folder \in Folders
  /\ cpu_count \in 0..MaxCpus
  /\ ingest_pc = "submit"
  /\ futures = <<>>
  /\ collected = {}
  /\ ingest_rows = <<>>
  /\ ingest_error = "none"
  /\ store_uses = <<>>

Running == {i \in 1..Len(futures) : futures[i].state = "running"}

\* Future.done(): the task of the i-th future has returned or raised
FutureDoneAtSubmit(i) == TRUE
FutureDone(i) == futures[i].state = "done"

\* what shutdown(wait=True) of the executor waits for
AllDone == \A i \in 1..Len(futures) : FutureDone(i)

\* lines 216-224: the next file is read and chunked and its task submitted
IngestSubmit ==
  /\ ingest_pc = "submit"
  /\ Len(futures) < Len(Ingestible(folder))
  /\ LET file == Ingestible(folder)[Len(futures) + 1]
     IN futures' = Append(futures,
                     [state |-> "pending", file |-> file,
                      chunks |-> auto_chunk(FileText(file), DEFAULT_CHUNK_SIZE, DEFAULT_OVERLAP),
                      outcome |-> [raised |-> "none", rows |-> <<>>]])
  /\ UNCHANGED <<folder, cpu_count, ingest_pc, collected, ingest_rows, ingest_error, store_uses>>
  /\ UNCHANGED store_vars

\* line 226: every file is submitted, as_completed starts
IngestSubmitted ==
  /\ ingest_pc = "submit"
  /\ Len(futures) = Len(Ingestible(folder))
  /\ ingest_pc' = "collect"
  /\ UNCHANGED <<folder, cpu_count, futures, collected, ingest_rows, ingest_error, store_uses>>
  /\ UNCHANGED store_vars

\* A worker of the pool marks the task it took as running.  The workers
\* take the queued tasks oldest first, but those that have taken a task
\* mark theirs in any order: task i can be marked when, besides the workers
\* that run a task, a worker is left for every older task still pending and
\* one for task i.
TaskStart(i) ==
  /\ futures[i].state = "pending"
  /\ Cardinality({j \in 1..(i - 1) : futures[j].state = "pending"}) + Cardinality(Running)
       < MAX_WORKERS(cpu_count)
  /\ futures' = [futures EXCEPT ![i].state = "running"]
  /\ UNCHANGED <<folder, cpu_count, ingest_pc, collected, ingest_rows, ingest_error, store_uses>>
  /\ UNCHANGED store_vars

\* the worker's call of process_file returns or raises, and the future is done
TaskFinish(i) ==
  /\ futures[i].state = "running"
  /\ \E service_ok \in BOOLEAN :
       futures' = [futures EXCEPT
                     ![i].state = "done",
                     ![i].outcome = CallProcessFile(SubmitArgs, service_ok, futures[i].chunks,
                                                    futures[i].file, IngestCollection)]
  /\ UNCHANGED <<folder, cpu_count, ingest_pc, collected, ingest_rows, ingest_error, store_uses>>
  /\ UNCHANGED store_vars

\* lines 226-227: as_completed yields a finished future and future.result()
\* returns its rows or raises its exception again, in ingest_folder
IngestCollect ==
  /\ ingest_pc = "collect"
  /\ \E i \in 1..Len(futures) :
       /\ FutureDone(i)
       /\ i \notin collected
       /\ IF futures[i].outcome.raised # "none"
          THEN /\ ingest_pc' = "unwind"
               /\ ingest_error' = futures[i].outcome.raised
               /\ UNCHANGED <<collected, ingest_rows>>
          ELSE /\ ingest_rows' = ingest_rows \o futures[i].outcome.rows
               /\ collected' = collected \cup {i}
               /\ UNCHANGED <<ingest_pc, ingest_error>>
  /\ UNCHANGED <<folder, cpu_count, futures, store_uses>>
  /\ UNCHANGED store_vars

\* the tasks a thread that uses the store connection finds unfinished
Unfinished == {i \in 1..Len(futures) : futures[i].state # "done"}

\* line 226: the loop over as_completed(futures) ends when every future has
\* been yielded, and a future is yielded once it is done
AsCompletedExhausted == collected = 1..Len(futures)

\* line 226: as_completed has yielded every future; the with block of line
\* 213 ends, and its exit (shutdown(wait=True)) returns once every submitted
\* task has finished
IngestCollected ==
  /\ ingest_pc = "collect"
  /\ AsCompletedExhausted
  /\ AllDone
  /\ ingest_pc' = "insert"
  /\ UNCHANGED <<folder, cpu_count, futures, collected, ingest_rows, ingest_error, store_uses>>
  /\ UNCHANGED store_vars

\* line 213: the exception leaves the with block, whose exit waits for every
\* submitted task (shutdown(wait=True)), and then leaves ingest_folder
IngestUnwind ==
  /\ ingest_pc = "unwind"
  /\ AllDone
  /\ ingest_pc' = "raised"
  /\ UNCHANGED <<folder, cpu_count, futures, collected, ingest_rows, ingest_error, store_uses>>
  /\ UNCHANGED store_vars

\* line 229: db.insert_chunks(rows) is called
IngestInsertChunks ==
  /\ ingest_pc = "insert"
  /\ InsertChunksCall(ingest_rows)
  /\ ingest_pc' = "inserting"
  /\ store_uses' = Append(store_uses, [by |-> "ingest_folder", op |-> "insert_chunks",
                                       unfinished |-> Unfinished])
  /\ UNCHANGED <<folder, cpu_count, futures, collected, ingest_rows, ingest_error>>

\* line 229: the call of insert_chunks takes its next step (a page, the
\* commit, a refusal by the server, the loss of the connection); when it
\* returns ingest_folder returns, when it raises ingest_folder raises.
IngestInsertStep ==
  /\ ingest_pc = "inserting"
  /\ call.state = "running"
  /\ \/ InsertChunksPage
     \/ InsertChunksRaises
     \/ InsertChunksClientError
     \/ InsertChunksCommit
     \/ ConnectionLost
  /\ ingest_pc' = IF call'.state = "running" THEN "inserting"
                  ELSE IF call'.state = "returned" THEN "returned" ELSE "raised"
  /\ ingest_error' = IF call'.state = "raised" THEN "DatabaseError" ELSE ingest_error
  /\ UNCHANGED <<folder, cpu_count, futures, collected, ingest_rows, store_uses>>

(***************************************************************************)
(* Specifications: one per component, the other components at rest.        *)
(***************************************************************************)
ChunkNext ==
  \/ AutoChunkEnter /\ UNCHANGED <<hash_vars, store_vars, search_vars, ingest_vars>>
  \/ AutoChunkIterate /\ UNCHANGED <<hash_vars, store_vars, search_vars, ingest_vars>>
  \/ AutoChunkReturn /\ UNCHANGED <<hash_vars, store_vars, search_vars, ingest_vars>>

ChunkInit == AutoChunkCall /\ HashIdle /\ StoreIdle /\ SearchIdle /\ IngestIdle

SpecChunk == ChunkInit /\ [][ChunkNext]_vars

HashNext == HashIdCall /\ UNCHANGED <<chunk_vars, store_vars, search_vars, ingest_vars>>

HashInit == HashIdle /\ ChunkIdle /\ StoreIdle /\ SearchIdle /\ IngestIdle

SpecHash == HashInit /\ [][HashNext]_vars

StoreNext ==
  \/ Connect /\ UNCHANGED <<chunk_vars, hash_vars, search_vars, ingest_vars>>
  \/ ConnectionLost /\ UNCHANGED <<chunk_vars, hash_vars, search_vars, ingest_vars>>
  \/ InitializeSchemaBegin /\ UNCHANGED <<chunk_vars, hash_vars, search_vars, ingest_vars>>
  \/ InitializeSchemaRefused /\ UNCHANGED <<chunk_vars, hash_vars, search_vars, ingest_vars>>
  \/ InitializeSchemaFinish /\ UNCHANGED <<chunk_vars, hash_vars, search_vars, ingest_vars>>
  \/ InitializeSchemaRaises /\ UNCHANGED <<chunk_vars, hash_vars, search_vars, ingest_vars>>
  \/ (\E rows \in StoreBatches : InsertChunksCall(rows)) /\ UNCHANGED <<chunk_vars, hash_vars, search_vars, ingest_vars>>
  \/ InsertChunksPage /\ UNCHANGED <<chunk_vars, hash_vars, search_vars, ingest_vars>>
  \/ InsertChunksRaises /\ UNCHANGED <<chunk_vars, hash_vars, search_vars, ingest_vars>>
  \/ InsertChunksClientError /\ UNCHANGED <<chunk_vars, hash_vars, search_vars, ingest_vars>>
  \/ InsertChunksCommit /\ UNCHANGED <<chunk_vars, hash_vars, search_vars, ingest_vars>>

StoreInit == StoreIdle /\ ChunkIdle /\ HashIdle /\ SearchIdle /\ IngestIdle

SpecStore == StoreInit /\ [][StoreNext]_vars

\* searches over a store that calls of initialize_schema and insert_chunks
\* fill; search describes a search of the store as it is, and is forgotten
\* when a later call touches the store
SearchNext ==
  \/ Connect /\ search' = NoSearch /\ UNCHANGED <<chunk_vars, hash_vars, ingest_vars>>
  \/ InitializeSchemaBegin /\ search' = NoSearch /\ UNCHANGED <<chunk_vars, hash_vars, ingest_vars>>
  \/ InitializeSchemaFinish /\ search' = NoSearch /\ UNCHANGED <<chunk_vars, hash_vars, ingest_vars>>
  \/ (\E rows \in SearchBatches : InsertChunksCall(rows))
       /\ search' = NoSearch /\ UNCHANGED <<chunk_vars, hash_vars, ingest_vars>>
  \/ InsertChunksPage /\ search' = NoSearch /\ UNCHANGED <<chunk_vars, hash_vars, ingest_vars>>
  \/ InsertChunksCommit /\ search' = NoSearch /\ UNCHANGED <<chunk_vars, hash_vars, ingest_vars>>
  \/ (\E q \in QueryVectors, c \in SearchCollections, k \in 0..MaxLimit :
        SimilaritySearch(q, c, k)) /\ UNCHANGED <<chunk_vars, hash_vars, ingest_vars>>
  \/ (\E q \in QueryVectors, c \in SearchCollections, k \in 0..MaxLimit :
        SearchDocuments(q, c, k)) /\ UNCHANGED <<chunk_vars, hash_vars, ingest_vars>>

SearchInit == StoreInit

SpecSearch == SearchInit /\ [][SearchNext]_vars

IngestNext ==
  \/ IngestSubmit /\ UNCHANGED <<chunk_vars, hash_vars, search_vars>>
  \/ IngestSubmitted /\ UNCHANGED <<chunk_vars, hash_vars, search_vars>>
  \/ (\E i \in 1..Len(futures) : TaskStart(i))
       /\ UNCHANGED <<chunk_vars, hash_vars, search_vars>>
  \/ (\E i \in 1..Len(futures) : TaskFinish(i))
       /\ UNCHANGED <<chunk_vars, hash_vars, search_vars>>
  \/ IngestCollect /\ UNCHANGED <<chunk_vars, hash_vars, search_vars>>
  \/ IngestCollected /\ UNCHANGED <<chunk_vars, hash_vars, search_vars>>
  \/ IngestUnwind /\ UNCHANGED <<chunk_vars, hash_vars, search_vars>>
  \/ IngestInsertChunks /\ UNCHANGED <<chunk_vars, hash_vars, search_vars>>
  \/ IngestInsertStep /\ UNCHANGED <<chunk_vars, hash_vars, search_vars>>

\* main has connected and initialize_schema has returned (lines 302-303)
IngestInit ==
  /\ IngestFolderCall
  /\ db = InitializedDb
  /\ conn = "open"
  /\ tx = InitializedDb
  /\ tx_status = "none"
  /\ call = NoCall
  /\ batches = {}
  /\ ChunkIdle /\ HashIdle /\ SearchIdle

SpecIngest == IngestInit /\ [][IngestNext]_vars

(***************************************************************************)
(* Properties of auto_chunk.                                               *)
(***************************************************************************)
\* the words of chunk c that follow its first ov words
AfterOverlap(c, ov) == SubSeq(split(c), ov + 1, Len(split(c)))

\* the first chunk whole, then of each later chunk the words after its
\* overlap with the previous chunk, concatenated in chunk order
RECURSIVE NonOverlapping(_, _, _)
NonOverlapping(cs, ov, i) ==
  IF i > Len(cs) THEN <<>>
  ELSE (IF i = 1 THEN split(cs[1]) ELSE AfterOverlap(cs[i], ov))
       \o NonOverlapping(cs, ov, i + 1)

\* C5: a call with overlap >= target_size whose window advance
\* target_size - overlap is non-positive after the resizing fails fast: it
\* appends no chunk and does not return a list.
C5_FailsFast ==
  (arg_overlap >= arg_target_size /\ chunk_pc # "call" /\ target_size - overlap <= 0)
    => (chunks = <<>> /\ chunk_pc # "return")

\* C6: with overlap < target_size the call terminates (every iteration moves
\* start forward, so after k iterations start >= k) and the non-overlapping
\* portions of the returned chunks are exactly the words of the text.
C6_TerminatesAndReconstructs ==
  arg_overlap < arg_target_size =>
    /\ chunk_pc # "call" => start >= Len(chunks)
    /\ chunk_pc = "return" => NonOverlapping(chunks, overlap, 1) = split(text)

\* C7 as stated: a document with fewer words than target_size, an empty or
\* all-whitespace one included, yields at least one chunk and a non-empty one.
C7_ShortDocAsStated ==
  (chunk_pc = "return" /\ Len(split(text)) < arg_target_size)
    => (Len(chunks) >= 1 /\ \E i \in 1..Len(chunks) : chunks[i] # <<>>)

\* C7 amended: a document with at least one word and fewer words than
\* target_size yields at least one chunk, and its first chunk is non-empty.
C7_ShortDocNonEmptyChunk ==
  (chunk_pc = "return" /\ Len(split(text)) >= 1 /\ Len(split(text)) < arg_target_size)
    => (Len(chunks) >= 1 /\ chunks[1] # <<>>)

C7_Witness ==
  /\ chunk_pc = "return"
  /\ Len(words) >= 1
  /\ Len(words) < arg_target_size
  /\ Len(chunks) >= 1
  /\ chunks[1] # <<>>

\* C8: hash_id is a deterministic and injective key: two calls with the same
\* (collection, text) give the same id, and two calls whose collection or
\* text differ give different ids.
C8_DeterministicInjective ==
  \A x \in hash_calls : \A y \in hash_calls :
    /\ (x.collection = y.collection /\ x.text = y.text) => x.id = y.id
    /\ (x.collection # y.collection \/ x.text # y.text) => x.id # y.id

(***************************************************************************)
(* Properties of DatabaseManager.                                          *)
(***************************************************************************)
BatchIds(rows) == {rows[i].id : i \in 1..Len(rows)}

\* the ids of a batch that were not stored when insert_chunks was called
NewIds(c) == BatchIds(c.rows) \ Ids(c.before)

C4_AtomicBatch ==
  /\ \A b \in batches :
       b.committed =>
         \/ NewIds(b) \cap Ids(db.rows) = {}
         \/ NewIds(b) \subseteq Ids(db.rows)
  /\ call.op = "insert_chunks" =>
       /\ \/ NewIds(call) \cap Ids(db.rows) = {}
          \/ NewIds(call) \subseteq Ids(db.rows)
       /\ (call.state = "running" \/ call.sent < Len(call.rows)) => db.rows = call.before

\* C4 for the failures of the server and of the connection alone: what the
\* last commit published never holds a batch with pages still to send,
\* unless its call raised on the client (C4_AtomicBatch fails only there).
C4_PartialOnlyAfterClientError ==
  \A b \in batches :
    (b.committed /\ b.sent < Len(b.rows)) => \E r \in Range(b.rows) : ~Adaptable(r)

\* a batch longer than one page whose call ended with an exception after the
\* first page was sent and before the commit
C4_Witness ==
  /\ call.op = "insert_chunks"
  /\ call.state = "raised"
  /\ Len(call.rows) > PAGE_SIZE
  /\ call.sent = PAGE_SIZE
  /\ NewIds(call) # {}
  /\ db.rows = call.before

\* C10, first part: each schema version is recorded at most once.
C10_VersionRecordedOnce == NoDuplicates(db.versions)

\* C10, second part: the highest recorded version never decreases.
C10_VersionMonotone ==
  call.op = "initialize_schema" =>
    CurrentVersion(db.versions) >= CurrentVersion(call.before.versions)

\* C10, third part: a call made when the recorded version already equals
\* SCHEMA_VERSION leaves the version table, the chunk table and the stored
\* rows unchanged.
C10_NoOpAtCurrentVersion ==
  (call.op = "initialize_schema" /\ call.current_version = SCHEMA_VERSION) =>
    /\ db.version_table = call.before.version_table
    /\ db.versions = call.before.versions
    /\ db.chunk_table = call.before.chunk_table
    /\ db.rows = call.before.rows

\* C10: initialize_schema is idempotent and its version record only moves
\* forward: a version is recorded at most once, the highest recorded version
\* never decreases, and a call made at SCHEMA_VERSION changes neither the
\* version table nor the chunk table nor the stored rows.
C10_InitializeSchemaIdempotent ==
  /\ C10_VersionRecordedOnce
  /\ C10_VersionMonotone
  /\ C10_NoOpAtCurrentVersion

(***************************************************************************)
(* Properties of the search.                                               *)
(***************************************************************************)
\* the rows of the searched collection, as the search selects them
Candidates(sr) ==
  {Selected(r, sr.query_vector) : r \in WhereCollection(sr.over, sr.collection)}

\* a returned list is a top-k answer: at most limit entries, each a distinct
\* chunk of the collection, in non-decreasing order of distance, and no
\* chunk of the collection left out is closer than a returned one
IsTopK(sr) ==
  LET res == sr.out.result
  IN /\ Len(res) <= sr.limit
     /\ \A i \in 1..Len(res) : res[i] \in Candidates(sr)
     /\ \A i \in 1..Len(res) : \A j \in 1..Len(res) : res[i] = res[j] => i = j
     /\ \A i \in 1..Len(res) : \A j \in i..Len(res) : res[i].distance <= res[j].distance
     /\ \A e \in Candidates(sr) \ Range(res) :
          \A i \in 1..Len(res) : res[i].distance <= e.distance

\* C9: every search of an existing chunk table, by similarity_search or by
\* search_documents, returns a result, and the result is a top-k answer.
C9_SearchReturnsTopK ==
  (search.op # "none" /\ search.table_exists) =>
    (search.out.state = "returned" /\ IsTopK(search))

\* what holds of search_documents alone (not a claim of its own)
SearchDocumentsReturnsTopK ==
  (search.op = "search_documents" /\ search.table_exists) =>
    (search.out.state = "returned" /\ IsTopK(search))

(***************************************************************************)
(* Properties of ingest_folder.                                            *)
(***************************************************************************)
IngestEnded == ingest_pc \in {"returned", "raised"}

TaskFailed(i) == futures[i].state = "done" /\ futures[i].outcome.raised # "none"

TaskSucceeded(i) == futures[i].state = "done" /\ futures[i].outcome.raised = "none"

\* the rows process_file builds for the i-th ingestible file of the folder
RowsOfFile(i) ==
  LET file == Ingestible(folder)[i]
      chks == auto_chunk(FileText(file), DEFAULT_CHUNK_SIZE, DEFAULT_OVERLAP)
  IN [k \in 1..Len(chks) |-> Row(chks[k], Embedding(chks[k]), file, IngestCollection)]

\* insert_chunks was called by this run and committed
InsertCommitted == ingest_pc = "returned" /\ call.op = "insert_chunks" /\ call.state = "returned"

\* C1: when process_file raised for exactly one file and every other file's
\* task succeeded, ingest_folder still ends normally, having passed the rows
\* of every other file to insert_chunks, which committed them.
C1_FailureIsolated ==
  (/\ IngestEnded
   /\ \E i \in 1..Len(futures) :
        /\ TaskFailed(i)
        /\ \A j \in (1..Len(futures)) \ {i} : TaskSucceeded(j))
    => /\ InsertCommitted
       /\ \A j \in 1..Len(futures) :
            TaskSucceeded(j) =>
              /\ Range(RowsOfFile(j)) \subseteq Range(call.rows)
              /\ BatchIds(RowsOfFile(j)) \subseteq Ids(db.rows)

\* C2: for a non-empty set of ingestible files whose embedding requests all
\* succeed, ingest_folder ends having handed insert_chunks exactly one row
\* per chunk of every file.
C2_AllRowsInserted ==
  (/\ IngestEnded
   /\ Ingestible(folder) # <<>>
   /\ \A i \in 1..Len(futures) : futures[i].outcome.raised # "HTTPError")
    => /\ InsertCommitted
       /\ \A i \in 1..Len(Ingestible(folder)) :
            Range(RowsOfFile(i)) \subseteq Range(call.rows)
       /\ \A k \in 1..Len(call.rows) :
            \E i \in 1..Len(Ingestible(folder)) : call.rows[k] \in Range(RowsOfFile(i))

\* the store as the run found it: nothing written, no call made
StoreUntouched ==
  /\ store_uses = <<>>
  /\ db = InitializedDb
  /\ tx = InitializedDb
  /\ call = NoCall

====
